---- MODULE Spec2Model ----
(***************************************************************************)
(* Model of helpers/windows/pdh/mkpdh_defs.go: the generator that runs the *)
(* C preprocessor over <pdhmsg.h>, scans its output for `#define PDH_...`  *)
(* lines, executes the file template into the output file and runs gofmt   *)
(* on it.                                                                  *)
(*                                                                         *)
(* Text is modelled as sequences of one-character strings.  A line of the  *)
(* preprocessor output is a record [text, pad]: the characters `text`      *)
(* followed by `pad` blanks, so that a line longer than the line reader's  *)
(* buffer keeps its true length without being spelled out.  The output     *)
(* file is the sequence of the chunks written to it, one per Write call of *)
(* the template execution.                                                 *)
(***************************************************************************)
EXTENDS Integers, Sequences, FiniteSets, TLC

VARIABLES
    pc,          \* position of the run in main / getErrorDefines / writeOutput
    out,         \* cmd.Output(): the preprocessor's output, as lines
    pos,         \* number of lines the bufio.Scanner has delivered
    scanErr,     \* s.Err(): "nil" or "ErrTooLong"
    errors,      \* the slice `errors` of getErrorDefines / TemplateParams.Errors
    err,         \* the last error value returned to main ("nil" when none)
    file,        \* the file named by *output
    prevFile,    \* the file named by *output as it was when the run began
    handleOpen,  \* writeOutput's *os.File f is open
    stderr,      \* diagnostics printed to os.Stderr
    exited,      \* the process has terminated
    status,      \* its exit status (meaningful once exited)
    fmtRuns      \* number of gofmt invocations

vars == <<pc, out, pos, scanErr, errors, err, file, prevFile, handleOpen,
          stderr, exited, status, fmtRuns>>

-----------------------------------------------------------------------------
(* Bounds of the model *)

\* longest preprocessor output, in lines
MaxLines == 3

-----------------------------------------------------------------------------
(* Program constants *)

\* bufio.MaxScanTokenSize, the buffer limit of bufio.NewScanner
MaxScanTokenSize == 65536

\* os.Exit(1)
ExitFailure == 1

\* return from main
ExitSuccess == 0

-----------------------------------------------------------------------------
(* Characters *)

Digits == {"0", "1", "2", "3", "4", "5", "6", "7", "8", "9"}

Upper == {"A", "B", "C", "D", "E", "F", "G", "H", "I", "J", "K", "L", "M",
          "N", "O", "P", "Q", "R", "S", "T", "U", "V", "W", "X", "Y", "Z"}

Lower == {"a", "b", "c", "d", "e", "f", "g", "h", "i", "j", "k", "l", "m",
          "n", "o", "p", "q", "r", "s", "t", "u", "v", "w", "x", "y", "z"}

\* the class [\w_] of pdhErrorRegex
WordChars == Digits \cup Upper \cup Lower \cup {"_"}

HashDefine == <<"#", "d", "e", "f", "i", "n", "e">>

PdhPrefix == <<"P", "D", "H", "_">>

\* the literal part of pdhErrorRegex: `#define PDH_`, anchored at the start
RegexLiteral == HashDefine \o <<" ">> \o PdhPrefix

\* index of the first character of the capture group
GroupStart == Len(HashDefine) + 2

-----------------------------------------------------------------------------
(* Lines *)

Line(text, pad) == [text |-> text, pad |-> pad]

\* number of bytes of the line, without its newline
LineLen(l) == Len(l.text) + l.pad

\* i-th byte of the line
CharAt(l, i) == IF i <= Len(l.text) THEN l.text[i] ELSE " "

\* bufio.ScanLines / dropCR: the token is the line without a trailing \r
DropCR(l) ==
    IF l.pad = 0 /\ Len(l.text) > 0 /\ l.text[Len(l.text)] = "\r"
    THEN Line(SubSeq(l.text, 1, Len(l.text) - 1), 0)
    ELSE l

\* bufio.Scanner.Scan gives up with ErrTooLong when the buffer is full and
\* holds no complete line
TooLong(l) == LineLen(l) >= MaxScanTokenSize

\* the lines the preprocessor output is drawn from
Lines ==
    { Line(HashDefine \o <<" ">> \o PdhPrefix \o <<"A", " ", "0">>, 0),
      Line(HashDefine \o <<" ">> \o PdhPrefix \o <<"B", "_", "1", "(", "x", ")", " ", "y">>, 0),
      Line(HashDefine \o <<" ">> \o PdhPrefix \o <<"A", "\r">>, 0),
      Line(HashDefine \o <<" ">> \o <<"U", "N", "R", "E", "L", " ", "2">>, 0),
      Line(HashDefine \o <<"\t">> \o PdhPrefix \o <<"A", " ", "0">>, 0),
      Line(<<" ">> \o HashDefine \o <<" ">> \o PdhPrefix \o <<"A">>, 0),
      Line(HashDefine \o <<" ">> \o PdhPrefix \o <<" ", "1">>, 0),
      Line(<<>>, 0),
      Line(HashDefine \o <<" ">> \o PdhPrefix \o <<"C">>, MaxScanTokenSize - 14),
      Line(HashDefine \o <<" ">> \o PdhPrefix \o <<"C">>, MaxScanTokenSize - 13) }

RECURSIVE SeqsUpTo(_, _)
SeqsUpTo(S, n) ==
    IF n = 0 THEN {<<>>}
    ELSE LET shorter == SeqsUpTo(S, n - 1)
         IN  shorter \cup {Append(s, x) : s \in shorter, x \in S}

\* the outputs the preprocessor may produce
Outputs == SeqsUpTo(Lines, MaxLines)

-----------------------------------------------------------------------------
(* pdhErrorRegex = `^#define (PDH_[\w_]+)` *)

\* the line starts with the literal part of the pattern
HasLiteral(l) ==
    /\ LineLen(l) >= Len(RegexLiteral)
    /\ \A i \in 1..Len(RegexLiteral) : CharAt(l, i) = RegexLiteral[i]

\* [\w_]+ is greedy: length of the run of word characters starting at i
RECURSIVE WordRun(_, _)
WordRun(l, i) ==
    IF i <= LineLen(l) /\ CharAt(l, i) \in WordChars
    THEN 1 + WordRun(l, i + 1)
    ELSE 0

\* the same pattern with \s in place of the blank
SloppyFindStringSubmatch(l) ==
    LET lit == /\ LineLen(l) >= Len(RegexLiteral)
               /\ \A i \in 1..Len(RegexLiteral) :
                     IF i = Len(HashDefine) + 1
                     THEN CharAt(l, i) \in {" ", "\t"}
                     ELSE CharAt(l, i) = RegexLiteral[i]
        n == WordRun(l, Len(RegexLiteral) + 1)
        last == Len(RegexLiteral) + n
    IN  IF lit /\ n >= 1
        THEN << [i \in 1..last |-> CharAt(l, i)],
                [i \in 1..(last - GroupStart + 1) |-> CharAt(l, GroupStart + i - 1)] >>
        ELSE <<>>

\* pdhErrorRegex.FindStringSubmatch(line): <<match, group 1>>, or <<>> for nil
FindStringSubmatch(l) ==
    LET n == WordRun(l, Len(RegexLiteral) + 1)
        last == Len(RegexLiteral) + n
    IN  IF HasLiteral(l) /\ n >= 1
        THEN << [i \in 1..last |-> CharAt(l, i)],
                [i \in 1..(last - GroupStart + 1) |-> CharAt(l, GroupStart + i - 1)] >>
        ELSE <<>>

\* body of the scan loop: errors after one delivered line
ScanBody(errs, l) ==
    LET matches == FindStringSubmatch(DropCR(l))
    IN  IF Len(matches) > 1 THEN Append(errs, matches[2]) ELSE errs

-----------------------------------------------------------------------------
(* fileTemplate, as parsed by template.Must(...Parse(fileTemplate)) *)

\* text before the first range: header, package clause, cgo preamble,
\* `type PdhErrno uintptr`, `const (` (trailing white space trimmed by {{-)
TextHead == <<"head: type PdhErrno uintptr; const (">>

\* text between the two ranges
TextMid == <<"\n)\n\nvar pdhErrors = map[PdhErrno]struct{}{">>

\* text after the second range: `}` and the fixed counter-format block
TextTail == <<"\n}\n\ntail: type PdhCounterFormat uint32; const ( PdhFmt... )\n">>

TextIndent == <<"\n\t">>

TextDecl == <<" PdhErrno = C.">>

TextMember == <<": struct{}{},">>

\* the node standing for {{ $errorCode }}
VarNode == <<"$errorCode">>

\* body of `range` in the constants block
DeclBody == <<TextIndent, VarNode, TextDecl, VarNode>>

\* body of `range` in the membership block
MemberBody == <<TextIndent, VarNode, TextMember>>

\* one pass over a range body with $errorCode bound to e
ExecBody(body, e) ==
    [k \in 1..Len(body) |-> IF body[k] = VarNode THEN e ELSE body[k]]

\* range that starts at the second element
RECURSIVE SkipFirstExecRange(_, _)
SkipFirstExecRange(body, L) ==
    IF Len(L) <= 1 THEN <<>>
    ELSE ExecBody(body, L[2]) \o SkipFirstExecRange(body, Tail(L))

\* {{- range $i, $errorCode := .Errors }} body {{- end }}
RECURSIVE ExecRange(_, _)
ExecRange(body, L) ==
    IF L = <<>> THEN <<>>
    ELSE ExecBody(body, Head(L)) \o ExecRange(body, Tail(L))

\* tmpl.Execute(f, p): the chunks written to f, in order
Execute(L) ==
    <<TextHead>> \o ExecRange(DeclBody, L) \o <<TextMid>>
        \o ExecRange(MemberBody, L) \o <<TextTail>>

-----------------------------------------------------------------------------
(* Files *)

NoFile == [exists |-> FALSE, data |-> <<>>, formatted |-> FALSE]

\* content left by an earlier run
OldFile == [exists |-> TRUE, data |-> <<TextHead, TextMid, TextTail>>, formatted |-> TRUE]

\* os.Create: creates the file or truncates it
Created == [exists |-> TRUE, data |-> <<>>, formatted |-> FALSE]

\* f.Write(chunk)
WriteChunk(f, chunk) == [f EXCEPT !.data = Append(@, chunk)]

\* gofmt -w: rewrites the file in place
Gofmt(f) == [f EXCEPT !.formatted = TRUE]

\* a failed formatter run followed by removal of the output
RemovedOnFormatError(f) == NoFile

\* the file after gofmt failed and main exited: nothing touches it
FileOnFormatError(f) == f

\* writeOutput never closes f
LeakHandle(h) == h

\* defer f.Close()
CloseHandle(h) == FALSE

-----------------------------------------------------------------------------
(* main *)

\* main going on regardless of err
IgnoreErrAfterGetErrorDefines(e) == "Creating"

\* main after getErrorDefines returned e
MainAfterGetErrorDefines(e) == IF e # "nil" THEN "Failed" ELSE "Creating"

\* main after writeOutput returned e
MainAfterWriteOutput(e) == IF e # "nil" THEN "Failed" ELSE "Formatting"

\* main after gofmtOutput returned e
MainAfterGofmtOutput(e) == IF e # "nil" THEN "Failed" ELSE "Done"

\* fmt.Fprintln(os.Stderr, "error:", err); os.Exit(1) -- or nothing when e is nil
Report(e, next) ==
    IF next = "Failed"
    THEN /\ stderr' = Append(stderr, e)
         /\ exited' = TRUE
         /\ status' = ExitFailure
    ELSE IF next = "Done"
    THEN /\ stderr' = stderr
         /\ exited' = TRUE
         /\ status' = ExitSuccess
    ELSE UNCHANGED <<stderr, exited, status>>

-----------------------------------------------------------------------------

Init ==
    /\ pc = "Start"
    /\ out = <<>>
    /\ pos = 0
    /\ scanErr = "nil"
    /\ errors = <<>>
    /\ err = "nil"
    /\ prevFile \in {NoFile, OldFile}
    /\ file = prevFile
    /\ handleOpen = FALSE
    /\ stderr = <<>>
    /\ exited = FALSE
    /\ status = 0
    /\ fmtRuns = 0

\* main calls getErrorDefines, which builds the gcc command
Start ==
    /\ pc = "Start"
    /\ pc' = "Expanding"
    /\ UNCHANGED <<out, pos, scanErr, errors, err, file, prevFile, handleOpen,
                   stderr, exited, status, fmtRuns>>

\* cmd.Output() fails: getErrorDefines returns nil, err
ExpandFail ==
    /\ pc = "Expanding"
    /\ err' = "ExitError"
    /\ pc' = MainAfterGetErrorDefines(err')
    /\ Report(err', pc')
    /\ UNCHANGED <<out, pos, scanErr, errors, file, prevFile, handleOpen, fmtRuns>>

\* cmd.Output() succeeds with some output
ExpandOk ==
    /\ pc = "Expanding"
    /\ \E o \in Outputs : out' = o
    /\ pc' = "Scanning"
    /\ UNCHANGED <<pos, scanErr, errors, err, file, prevFile, handleOpen,
                   stderr, exited, status, fmtRuns>>

\* s.Scan() delivers the next line and the loop body runs
ScanLine ==
    /\ pc = "Scanning"
    /\ pos < Len(out)
    /\ ~TooLong(out[pos + 1])
    /\ pos' = pos + 1
    /\ errors' = ScanBody(errors, out[pos + 1])
    /\ UNCHANGED <<pc, out, scanErr, err, file, prevFile, handleOpen,
                   stderr, exited, status, fmtRuns>>

\* s.Scan() returns false on a line it cannot hold; the loop ends and
\* getErrorDefines returns errors, nil without looking at s.Err()
ScanTooLong ==
    /\ pc = "Scanning"
    /\ pos < Len(out)
    /\ TooLong(out[pos + 1])
    /\ scanErr' = "ErrTooLong"
    /\ err' = "nil"
    /\ pc' = MainAfterGetErrorDefines(err')
    /\ Report(err', pc')
    /\ UNCHANGED <<out, pos, errors, file, prevFile, handleOpen, fmtRuns>>

\* s.Scan() returns false at the end of the output
ScanEOF ==
    /\ pc = "Scanning"
    /\ pos = Len(out)
    /\ err' = "nil"
    /\ pc' = MainAfterGetErrorDefines(err')
    /\ Report(err', pc')
    /\ UNCHANGED <<out, pos, scanErr, errors, file, prevFile, handleOpen, fmtRuns>>

\* os.Create(*output) fails: writeOutput returns err
CreateFail ==
    /\ pc = "Creating"
    /\ err' = "CreateError"
    /\ pc' = MainAfterWriteOutput(err')
    /\ Report(err', pc')
    /\ UNCHANGED <<out, pos, scanErr, errors, file, prevFile, handleOpen, fmtRuns>>

\* os.Create(*output) succeeds; defer f.Close() is registered
CreateOk ==
    /\ pc = "Creating"
    /\ file' = Created
    /\ handleOpen' = TRUE
    /\ pc' = "Executing"
    /\ UNCHANGED <<out, pos, scanErr, errors, err, prevFile,
                   stderr, exited, status, fmtRuns>>

\* tmpl.Execute writes its next chunk to f
ExecWrite ==
    /\ pc = "Executing"
    /\ Len(file.data) < Len(Execute(errors))
    /\ file' = WriteChunk(file, Execute(errors)[Len(file.data) + 1])
    /\ UNCHANGED <<pc, out, pos, scanErr, errors, err, prevFile, handleOpen,
                   stderr, exited, status, fmtRuns>>

\* a Write fails: tmpl.Execute and writeOutput return the error, f is closed
ExecFail ==
    /\ pc = "Executing"
    /\ Len(file.data) < Len(Execute(errors))
    /\ err' = "ExecuteError"
    /\ handleOpen' = CloseHandle(handleOpen)
    /\ pc' = MainAfterWriteOutput(err')
    /\ Report(err', pc')
    /\ UNCHANGED <<out, pos, scanErr, errors, file, prevFile, fmtRuns>>

\* tmpl.Execute returns nil: writeOutput returns nil, f is closed
ExecDone ==
    /\ pc = "Executing"
    /\ Len(file.data) = Len(Execute(errors))
    /\ err' = "nil"
    /\ handleOpen' = CloseHandle(handleOpen)
    /\ pc' = MainAfterWriteOutput(err')
    /\ Report(err', pc')
    /\ UNCHANGED <<out, pos, scanErr, errors, file, prevFile, fmtRuns>>

\* gofmt -w *output succeeds; main returns
FormatOk ==
    /\ pc = "Formatting"
    /\ fmtRuns' = fmtRuns + 1
    /\ file' = Gofmt(file)
    /\ err' = "nil"
    /\ pc' = MainAfterGofmtOutput(err')
    /\ Report(err', pc')
    /\ UNCHANGED <<out, pos, scanErr, errors, prevFile, handleOpen>>

\* gofmt is missing or exits non-zero
FormatFail ==
    /\ pc = "Formatting"
    /\ fmtRuns' = fmtRuns + 1
    /\ file' = FileOnFormatError(file)
    /\ err' = "FormatError"
    /\ pc' = MainAfterGofmtOutput(err')
    /\ Report(err', pc')
    /\ UNCHANGED <<out, pos, scanErr, errors, prevFile, handleOpen>>

Next ==
    \/ Start
    \/ ExpandFail
    \/ ExpandOk
    \/ ScanLine
    \/ ScanTooLong
    \/ ScanEOF
    \/ CreateFail
    \/ CreateOk
    \/ ExecWrite
    \/ ExecFail
    \/ ExecDone
    \/ FormatOk
    \/ FormatFail

Spec == Init /\ [][Next]_vars

-----------------------------------------------------------------------------
(* What the claims speak of *)

NameA == PdhPrefix \o <<"A">>

NameB == PdhPrefix \o <<"B", "_", "1">>

LineB == Line(HashDefine \o <<" ">> \o PdhPrefix \o <<"B", "_", "1", "(", "x", ")", " ", "y">>, 0)

LineACR == Line(HashDefine \o <<" ">> \o PdhPrefix \o <<"A", "\r">>, 0)

LineTab == Line(HashDefine \o <<"\t">> \o PdhPrefix \o <<"A", " ", "0">>, 0)

\* the line has the shape the pattern describes, with the separator after
\* `#define` taken from the set ws
HasShape(l, ws) ==
    /\ LineLen(l) > Len(RegexLiteral)
    /\ \A i \in 1..Len(HashDefine) : CharAt(l, i) = HashDefine[i]
    /\ CharAt(l, Len(HashDefine) + 1) \in ws
    /\ \A i \in 1..Len(PdhPrefix) : CharAt(l, Len(HashDefine) + 1 + i) = PdhPrefix[i]
    /\ CharAt(l, Len(RegexLiteral) + 1) \in WordChars

\* index of the last character of the maximal run of word characters that
\* follows the prefix
NameEnd(l) ==
    CHOOSE e \in (Len(RegexLiteral) + 1)..Len(l.text) :
        /\ \A i \in (Len(RegexLiteral) + 1)..e : CharAt(l, i) \in WordChars
        /\ e = LineLen(l) \/ CharAt(l, e + 1) \notin WordChars

\* the prefix together with that run
ShapeName(l) == SubSeq(l.text, GroupStart, NameEnd(l))

\* the names of all matching lines of an output, in order
RECURSIVE NamesOf(_)
NamesOf(lines) ==
    IF lines = <<>> THEN <<>>
    ELSE (IF HasShape(Head(lines), {" "}) THEN <<ShapeName(Head(lines))>> ELSE <<>>)
             \o NamesOf(Tail(lines))

\* the scanner has returned to main with a list
Scanned == pc \in {"Creating", "Executing", "Formatting", "Done"} \/ (pc = "Failed" /\ err # "ExitError")

\* the stage of the pipeline a position belongs to: os.Create is the
\* Writer's first act, tmpl.Execute is the Renderer at work
StageOf(p) ==
    CASE p = "Creating" -> "Writing"
      [] p = "Executing" -> "Rendering"
      [] OTHER -> p

\* the order of the stages a run is said to follow
StageOrder ==
    { <<"Start", "Expanding">>, <<"Expanding", "Scanning">>, <<"Scanning", "Rendering">>,
      <<"Rendering", "Writing">>, <<"Writing", "Formatting">>, <<"Formatting", "Done">> }

-----------------------------------------------------------------------------
(* Claims *)

\* C1: the list the scanner returns is exactly the names of the matching
\* lines of the whole output, in order, duplicates kept, none dropped.
C1_ListIsAllMatches == Scanned => errors = NamesOf(out)

\* C2: a stream fault while reading the output makes the scanner return an
\* error and the run fail: nothing after scanning runs and no list built from
\* the lines before the fault is used.
C2_FaultAborts ==
    scanErr # "nil" => /\ pc = "Failed"
                        /\ err # "nil"
                        /\ file = prevFile
                        /\ fmtRuns = 0

\* C3: a run moves Start -> Expanding -> Scanning -> Rendering -> Writing ->
\* Formatting -> Done, one stage after the other; a failing stage moves it
\* to Failed at once; Done and Failed are never left.
C3_StageOrder ==
    [][ /\ pc' # pc => \/ <<StageOf(pc), StageOf(pc')>> \in StageOrder
                       \/ pc \notin {"Done", "Failed"} /\ pc' = "Failed"
        /\ (scanErr = "nil" /\ scanErr' # "nil") => pc' = "Failed"
        /\ (err' # "nil") => pc' = "Failed" ]_vars

\* C4: the exit status is 0 exactly when every step succeeded, and a failed
\* run has written a diagnostic.
C4_ExitStatus ==
    exited => /\ (status = 0) <=> (pc = "Done" /\ err = "nil" /\ scanErr = "nil")
              /\ status # 0 => Len(stderr) >= 1

\* C5: the destination is created or truncated only once the rendered text
\* is complete, and a failed template execution leaves the destination as it
\* was before the run.
C5_RenderBeforeCreate ==
    /\ pc = "Executing" => file.data = Execute(errors)
    /\ (pc = "Failed" /\ err = "ExecuteError") => file = prevFile

\* C6: when the formatter fails after the writer succeeded, the destination
\* holds the complete rendered text as written and the run has failed with a
\* non-zero status.
C6_FormatFailureKeepsOutput ==
    (pc = "Failed" /\ err = "FormatError") =>
        /\ file.exists
        /\ file.data = Execute(errors)
        /\ ~file.formatted
        /\ exited /\ status # 0

C6_Witness ==
    /\ pc = "Failed" /\ err = "FormatError"
    /\ prevFile = OldFile
    /\ errors = <<NameA, NameB>>

\* C7: writeOutput never returns with its handle open, so the formatter
\* only ever runs on a released file.
C7_HandleReleased ==
    /\ handleOpen => pc = "Executing"
    /\ fmtRuns > 0 => ~handleOpen

C7_Witness ==
    /\ pc = "Formatting"
    /\ ~handleOpen
    /\ file.exists /\ file.data = Execute(errors)
    /\ errors # <<>>

\* C8: the rendered text holds one declaration and one membership entry per
\* element of the list, the i-th of each naming the i-th element, between
\* the fixed head, middle and counter-format texts.
C8_RenderedShape ==
    pc = "Formatting" =>
        LET T == file.data
            n == Len(errors)
            d(i) == 1 + 4 * (i - 1)
            m(i) == 2 + 4 * n + 3 * (i - 1)
        IN  /\ Len(T) = 3 + 7 * n
            /\ T[1] = TextHead
            /\ T[2 + 4 * n] = TextMid
            /\ T[3 + 7 * n] = TextTail
            /\ \A i \in 1..n :
                  /\ <<T[d(i) + 1], T[d(i) + 2], T[d(i) + 3], T[d(i) + 4]>>
                        = <<TextIndent, errors[i], TextDecl, errors[i]>>
                  /\ <<T[m(i) + 1], T[m(i) + 2], T[m(i) + 3]>>
                        = <<TextIndent, errors[i], TextMember>>

C8_Witness ==
    /\ pc = "Formatting"
    /\ errors = <<NameA, NameB, NameA>>

C10_ExpandFailureTouchesNothing ==
    err = "ExitError" =>
        /\ pc = "Failed"
        /\ file = prevFile
        /\ ~handleOpen
        /\ fmtRuns = 0
        /\ exited /\ status # 0

C10_Witness ==
    /\ pc = "Failed" /\ err = "ExitError"
    /\ prevFile = OldFile /\ file = OldFile

====
